---- MODULE Spec2Model ----
(***************************************************************************)
(* Sileo toast notifications: the store (core/store), the two view         *)
(* adapters (react/toaster.tsx, vue/toaster.ts) and the per-toast visual   *)
(* state machine (vue/sileo.ts).                                           *)
(*                                                                         *)
(* Time is counted in milliseconds and advances in steps of Quantum.  The  *)
(* JavaScript event loop is single-threaded: a store call runs to          *)
(* completion and notifies every listener synchronously; the adapter's     *)
(* reaction to a new list (Vue pre-flush watchers, React effects) runs     *)
(* after the calling turn and before the next timer or pointer event, so   *)
(* several store calls of one turn are seen by one reaction.               *)
(***************************************************************************)
EXTENDS Integers, Sequences, FiniteSets, TLC

(* ------------------------------- bounds -------------------------------- *)

\* number of toasts ever shown
MaxToasts == 2
\* milliseconds by which one Tick advances the clock
Quantum == 50

(* ----------------------------- JS values ------------------------------- *)

\* duration: number | null
NULL == -1
\* a missing value (string | undefined, number | undefined)
UNDEFINED == -2

Adapters == {"react", "vue"}

(* ------------------------------- store --------------------------------- *)

DEFAULT_DURATION == Quantum

Options(durations, states, descriptions, expands, collapses) ==
  { [duration |-> d, state |-> s, title |-> s, description |-> c,
     button |-> FALSE, autoExpandDelayMs |-> e, autoCollapseDelayMs |-> x] :
    d \in durations, s \in states, c \in descriptions, e \in expands,
    x \in collapses }

\* the options the adapter specification calls show() with
ShowOptions ==
  Options({NULL, 0, 2 * Quantum}, {"info"}, {FALSE}, {UNDEFINED}, {UNDEFINED})

\* the loading options the adapter specification calls promise() with
LoadingOptions ==
  Options({NULL}, {"loading"}, {FALSE}, {UNDEFINED}, {UNDEFINED})

\* the success and error projections of those promises
SettleOptions ==
  Options({2 * Quantum}, {"success"}, {FALSE}, {UNDEFINED}, {UNDEFINED})
  \cup Options({NULL}, {"error"}, {FALSE}, {UNDEFINED}, {UNDEFINED})

\* the options the stack specification calls show() with: toasts that can
\* expand, with and without autopilot
StackOptions ==
  Options({0}, {"info"}, {TRUE}, {0}, {2 * Quantum})
  \cup Options({0}, {"info"}, {TRUE}, {Quantum}, {UNDEFINED})

\* the options the swipe specification calls show() with
SwipeOptions == Options({0}, {"info"}, {FALSE}, {UNDEFINED}, {UNDEFINED})

StackLoadingOptions ==
  Options({0}, {"loading"}, {TRUE}, {UNDEFINED}, {UNDEFINED})

timeoutKey(item) == <<item.id, item.instanceId>>

Ids(items) == { items[i].id : i \in 1..Len(items) }

ItemOf(items, id) == items[CHOOSE i \in 1..Len(items) : items[i].id = id]

Live(items, id) == id \in Ids(items) /\ ~ItemOf(items, id).exiting

buildSileoItem(id, o) ==
  [id |-> id, instanceId |-> 1, exiting |-> FALSE, duration |-> o.duration,
   state |-> o.state, title |-> o.title, description |-> o.description,
   button |-> o.button, autoExpandDelayMs |-> o.autoExpandDelayMs,
   autoCollapseDelayMs |-> o.autoCollapseDelayMs]

\* mutant: the new toast is put in front
showFirst(items, id, o) == <<buildSileoItem(id, o)>> \o items

\* show(options): a new id, appended at the end of the list
show(items, id, o) == Append(items, buildSileoItem(id, o))

\* mutant: the settlement brings a dismissed toast back
replaceResurrect(items, id, o) ==
  [i \in 1..Len(items) |->
     IF items[i].id = id
     THEN [buildSileoItem(id, o) EXCEPT !.instanceId = items[i].instanceId + 1]
     ELSE items[i]]

\* mutant: the new content keeps the instanceId
replaceKeepInstance(items, id, o) ==
  [i \in 1..Len(items) |->
     IF items[i].id = id /\ ~items[i].exiting
     THEN [buildSileoItem(id, o) EXCEPT !.instanceId = items[i].instanceId]
     ELSE items[i]]

\* promise settlement: the content of a live toast is replaced in place, same
\* id, new instanceId; a toast already dismissed is left alone
replaceToast(items, id, o) ==
  [i \in 1..Len(items) |->
     IF items[i].id = id /\ ~items[i].exiting
     THEN [buildSileoItem(id, o) EXCEPT !.instanceId = items[i].instanceId + 1]
     ELSE items[i]]

\* mutant: a dismiss of an id that is not in the list dismisses the last toast
dismissLast(items, id) ==
  [i \in 1..Len(items) |->
     IF items[i].id = id \/ (i = Len(items) /\ id \notin Ids(items))
     THEN [items[i] EXCEPT !.exiting = TRUE]
     ELSE items[i]]

\* dismiss(id): marks the toast exiting if present and not already exiting
dismissToast(items, id) ==
  [i \in 1..Len(items) |->
     IF items[i].id = id /\ ~items[i].exiting
     THEN [items[i] EXCEPT !.exiting = TRUE]
     ELSE items[i]]

\* mutant: dismiss() empties the list
dismissAllRemove(items) == << >>

\* dismiss(): marks every toast exiting
dismissAll(items) ==
  [i \in 1..Len(items) |-> [items[i] EXCEPT !.exiting = TRUE]]

\* exit completion: the toast leaves the list
removeToast(items, id) == SelectSeq(items, LAMBDA t : t.id # id)

(* ------------------------------ variables ------------------------------ *)

VARIABLES
  storeToasts,   \* store.toasts
  idCounter,     \* ids handed out so far
  promises,      \* ids of the toasts whose promise has not settled
  listeners,     \* store.listeners, as the adapters subscribed
  adapter,       \* per adapter: the state of its Toaster
  pointer,       \* the id of the toast under the pointer, or UNDEFINED
  cards          \* per rendered toast id: the state of its card

vars ==
  <<storeToasts, idCounter, promises, listeners, adapter, pointer, cards>>

NoTimers == [k \in {} |-> 0]

(* ------------------------- timer registry helpers ---------------------- *)

\* timers.set(key, window.setTimeout(() => dismissToast(item.id), dur))
SetTimer(tm, key, id, dur) ==
  [k \in DOMAIN tm \cup {key} |->
     IF k = key THEN [id |-> id, delay |-> dur, elapsed |-> 0, fired |-> FALSE]
     ELSE tm[k]]

\* the timers that have been set and have neither fired nor been cleared
Pending(tm) == { k \in DOMAIN tm : ~tm[k].fired }

Due(tm) == { k \in Pending(tm) : tm[k].elapsed >= tm[k].delay }

Advance(tm) ==
  [k \in DOMAIN tm |->
     IF tm[k].fired THEN tm[k] ELSE [tm[k] EXCEPT !.elapsed = @ + Quantum]]

\* the timer's callback has run; its handle stays in the map
Fired(tm, key) ==
  IF key \in Due(tm) THEN [tm EXCEPT ![key].fired = TRUE] ELSE tm

(* ------------------------- Vue adapter (vue/toaster.ts) ---------------- *)

\* setup(): the state of a Toaster before it is mounted
VueSetup ==
  [phase |-> "setup", toasts |-> << >>, isHovering |-> FALSE,
   timers |-> NoTimers, latestId |-> UNDEFINED, activeId |-> UNDEFINED]

VueClearAllTimers(tm) == NoTimers

RECURSIVE VueScheduleLoop(_, _, _)
VueScheduleLoop(tm, items, i) ==
  IF i > Len(items) THEN tm
  ELSE LET item == items[i]
           key == timeoutKey(item)
           dur == IF item.duration \in {NULL, UNDEFINED}
                  THEN DEFAULT_DURATION ELSE item.duration
       IN IF item.exiting THEN VueScheduleLoop(tm, items, i + 1)
          ELSE IF key \in DOMAIN tm THEN VueScheduleLoop(tm, items, i + 1)
          ELSE IF dur = NULL \/ dur <= 0 THEN VueScheduleLoop(tm, items, i + 1)
          ELSE VueScheduleLoop(SetTimer(tm, key, item.id, dur), items, i + 1)

\* mutant: the item's own duration is ignored
VueScheduleDefaultOnly(hover, tm, items) ==
  LET r == IF hover THEN tm ELSE VueScheduleLoop(tm, items, 1)
  IN [k \in DOMAIN r |->
        IF k \in DOMAIN tm THEN r[k]
        ELSE [r[k] EXCEPT !.delay = DEFAULT_DURATION]]

VueSchedule(hover, tm, items) ==
  IF hover THEN tm ELSE VueScheduleLoop(tm, items, 1)

\* mutant: stale timers are kept
VuePruneNone(tm, items) == tm

\* watch(toasts): timers whose key is no longer in the list are cleared, then
\* schedule(items)
VuePrune(tm, items) ==
  LET toastKeys == { timeoutKey(items[i]) : i \in 1..Len(items) }
  IN [k \in DOMAIN tm \cap toastKeys |-> tm[k]]

VueWatchToasts(st) ==
  [st EXCEPT !.timers = VueSchedule(st.isHovering,
                                    VuePrune(st.timers, st.toasts), st.toasts)]

RECURSIVE VueLatestFrom(_, _)
VueLatestFrom(items, i) ==
  IF i < 1 THEN UNDEFINED
  ELSE IF ~items[i].exiting THEN items[i].id
  ELSE VueLatestFrom(items, i - 1)

VueLatest(items) == VueLatestFrom(items, Len(items))

\* watch(latest): runs when the value of latest has changed
VueWatchLatest(st) ==
  LET val == VueLatest(st.toasts)
  IN IF val = st.latestId THEN st
     ELSE [st EXCEPT !.latestId = val, !.activeId = val]

\* the listener, followed by the watchers it triggers
VueListener(st, next) ==
  VueWatchLatest(VueWatchToasts([st EXCEPT !.toasts = next]))

VueOnMounted(st, list) ==
  VueWatchLatest(VueWatchToasts([st EXCEPT !.phase = "mounted",
                                           !.toasts = list]))

\* mutant: the timers are left running at unmount
VueOnUnmountedLeak(st) == [st EXCEPT !.phase = "unmounted"]

VueOnUnmounted(st) ==
  [st EXCEPT !.phase = "unmounted", !.timers = VueClearAllTimers(st.timers)]

\* mutant: the pending timers survive the mouse-enter
VueEnterKeepTimers(st, toastId) ==
  [st EXCEPT !.activeId = toastId, !.isHovering = TRUE]

VueEnter(st, toastId) ==
  IF ~st.isHovering
  THEN [st EXCEPT !.activeId = toastId, !.isHovering = TRUE,
                  !.timers = VueClearAllTimers(st.timers)]
  ELSE [st EXCEPT !.activeId = toastId]

\* mutant: the hovered toast stays active after the mouse-leave
VueLeaveKeepActive(st) ==
  IF st.isHovering
  THEN [st EXCEPT !.isHovering = FALSE,
                  !.timers = VueSchedule(FALSE, st.timers, st.toasts)]
  ELSE st

VueLeave(st) ==
  IF st.isHovering
  THEN [st EXCEPT !.activeId = st.latestId, !.isHovering = FALSE,
                  !.timers = VueSchedule(FALSE, st.timers, st.toasts)]
  ELSE [st EXCEPT !.activeId = st.latestId]

\* mutant: every toast may expand
VueCanExpandAll(st, id) == TRUE

\* canExpand: activeId.value === undefined || activeId.value === item.id
VueCanExpand(st, id) == st.activeId = UNDEFINED \/ st.activeId = id

(* ----------------------- React adapter (react/toaster.tsx) ------------- *)

ReactSetup ==
  [phase |-> "setup", toasts |-> << >>, isHovering |-> FALSE,
   timers |-> NoTimers, latestId |-> UNDEFINED, activeId |-> UNDEFINED]

ReactClearAllTimers(tm) == NoTimers

RECURSIVE ReactScheduleLoop(_, _, _)
ReactScheduleLoop(tm, items, i) ==
  IF i > Len(items) THEN tm
  ELSE LET item == items[i]
           key == timeoutKey(item)
           dur == IF item.duration \in {NULL, UNDEFINED}
                  THEN DEFAULT_DURATION ELSE item.duration
       IN IF item.exiting THEN ReactScheduleLoop(tm, items, i + 1)
          ELSE IF key \in DOMAIN tm THEN ReactScheduleLoop(tm, items, i + 1)
          ELSE IF dur = NULL \/ dur <= 0 THEN ReactScheduleLoop(tm, items, i + 1)
          ELSE ReactScheduleLoop(SetTimer(tm, key, item.id, dur), items, i + 1)

ReactSchedule(hover, tm, items) ==
  IF hover THEN tm ELSE ReactScheduleLoop(tm, items, 1)

ReactPrune(tm, items) ==
  LET toastKeys == { timeoutKey(items[i]) : i \in 1..Len(items) }
  IN [k \in DOMAIN tm \cap toastKeys |-> tm[k]]

\* the toasts effect: listRef, pruning, schedule(toasts)
ReactToastsEffect(st) ==
  [st EXCEPT !.timers = ReactSchedule(st.isHovering,
                                      ReactPrune(st.timers, st.toasts),
                                      st.toasts)]

RECURSIVE ReactLatestFrom(_, _)
ReactLatestFrom(items, i) ==
  IF i < 1 THEN UNDEFINED
  ELSE IF ~items[i].exiting THEN items[i].id
  ELSE ReactLatestFrom(items, i - 1)

ReactLatest(items) == ReactLatestFrom(items, Len(items))

\* the latest effect: runs when the value of latest has changed
ReactLatestEffect(st) ==
  LET latest == ReactLatest(st.toasts)
  IN IF latest = st.latestId THEN st
     ELSE [st EXCEPT !.latestId = latest, !.activeId = latest]

\* the listener's setToasts, followed by the effects of the commit
ReactListener(st, next) ==
  ReactLatestEffect(ReactToastsEffect([st EXCEPT !.toasts = next]))

ReactOnMounted(st, list) ==
  ReactLatestEffect(ReactToastsEffect([st EXCEPT !.phase = "mounted",
                                                 !.toasts = list]))

ReactOnUnmounted(st) ==
  [st EXCEPT !.phase = "unmounted", !.timers = ReactClearAllTimers(st.timers)]

\* mutant: a Toaster that is hovered already ignores the mouse-enter
ReactEnterGuarded(st, toastId) ==
  IF st.isHovering THEN st
  ELSE [st EXCEPT !.activeId = toastId, !.isHovering = TRUE,
                  !.timers = ReactClearAllTimers(st.timers)]

ReactEnter(st, toastId) ==
  IF st.isHovering
  THEN [st EXCEPT !.activeId = toastId]
  ELSE [st EXCEPT !.activeId = toastId, !.isHovering = TRUE,
                  !.timers = ReactClearAllTimers(st.timers)]

ReactLeave(st) ==
  IF ~st.isHovering
  THEN [st EXCEPT !.activeId = st.latestId]
  ELSE [st EXCEPT !.activeId = st.latestId, !.isHovering = FALSE,
                  !.timers = ReactSchedule(FALSE, st.timers, st.toasts)]

ReactCanExpand(st, id) == st.activeId = UNDEFINED \/ st.activeId = id

(* ------------------------- framework dispatch -------------------------- *)

Setup(a) == IF a = "vue" THEN VueSetup ELSE ReactSetup

Listener(a, st, next) ==
  IF a = "vue" THEN VueListener(st, next) ELSE ReactListener(st, next)

OnMounted(a, st, list) ==
  IF a = "vue" THEN VueOnMounted(st, list) ELSE ReactOnMounted(st, list)

OnUnmounted(a, st) ==
  IF a = "vue" THEN VueOnUnmounted(st) ELSE ReactOnUnmounted(st)

OnEnter(a, st, id) ==
  IF a = "vue" THEN VueEnter(st, id) ELSE ReactEnter(st, id)

OnLeave(a, st) == IF a = "vue" THEN VueLeave(st) ELSE ReactLeave(st)

CanExpand(a, st, id) ==
  IF a = "vue" THEN VueCanExpand(st, id) ELSE ReactCanExpand(st, id)

Mounted == { a \in Adapters : adapter[a].phase = "mounted" }

(* --------------------- Toast card (vue/sileo.ts) ----------------------- *)

SWAP_COLLAPSE_MS == 200

SWIPE_DISMISS == 30

SWIPE_MAX == 20

\* the clientY of the pointer events: drags of 0, 1, 10, 30, 31, 40 and 41 px,
\* up and down
PointerYs == {0, 10, 40, 41}

MaxRefreshKey == 3

\* the toasts a lone card is rendered for
CardOptions ==
  { [o EXCEPT !.title = t] :
      o \in Options({0}, {"info", "loading"}, {FALSE, TRUE},
                    {UNDEFINED, 0, Quantum}, {UNDEFINED, 2 * Quantum}),
      t \in {"a", "b"} }

\* the properties whose transitions end on a card
TransitionProperties == {"height", "transform", "opacity"}

\* a timer handle: off, or pending with the time elapsed since it was set
NoTimer == [on |-> FALSE, delay |-> 0, elapsed |-> 0]

StartTimer(ms) == [on |-> TRUE, delay |-> ms, elapsed |-> 0]

TimerDue(t) == t.on /\ t.elapsed >= t.delay

TimerAdvance(t) == IF t.on THEN [t EXCEPT !.elapsed = @ + Quantum] ELSE t

\* the props the Toaster renders a toast with
PropsOf(item, canExpand) ==
  [id |-> item.id, state |-> item.state, title |-> item.title,
   description |-> item.description, button |-> item.button,
   exiting |-> item.exiting, autoExpandDelayMs |-> item.autoExpandDelayMs,
   autoCollapseDelayMs |-> item.autoCollapseDelayMs, canExpand |-> canExpand,
   refreshKey |-> item.instanceId]

\* next: the view the current props describe
NextView(props) ==
  [title |-> props.title, description |-> props.description,
   state |-> props.state, button |-> props.button]

NoView == [title |-> "", description |-> FALSE, state |-> "", button |-> FALSE]

NoPending == [set |-> FALSE, key |-> UNDEFINED, payload |-> NoView]

hasDesc(c) == c.view.description \/ c.view.button

isLoading(c) == c.view.state = "loading"

\* mutant: open does not look at the state
openWhileLoading(c) == hasDesc(c) /\ c.isExpanded

open(c) == hasDesc(c) /\ c.isExpanded /\ ~isLoading(c)

\* props.canExpand is always passed by the Toaster, so interruptKey is not read
allowExpand(c) == IF isLoading(c) THEN FALSE ELSE c.props.canExpand

\* mutant: new content is displayed at once, whether the card is open or not
RefreshAtOnce(c) ==
  IF c.lastRefreshKey = c.props.refreshKey THEN c
  ELSE [c EXCEPT !.lastRefreshKey = c.props.refreshKey,
                 !.swapTimer = NoTimer, !.pendingView = NoPending,
                 !.view = NextView(c.props), !.applied = c.props.refreshKey]

\* the watcher of the refresh logic
Refresh(c) ==
  LET openVal == open(c)
      refreshKeyVal == c.props.refreshKey
      nextVal == NextView(c.props)
  IN IF refreshKeyVal = UNDEFINED
     THEN [c EXCEPT !.view = nextVal, !.applied = UNDEFINED,
                    !.pendingView = NoPending, !.lastRefreshKey = refreshKeyVal]
     ELSE IF c.lastRefreshKey = refreshKeyVal THEN c
     ELSE IF openVal
     THEN [c EXCEPT !.lastRefreshKey = refreshKeyVal,
                    !.pendingView = [set |-> TRUE, key |-> refreshKeyVal,
                                     payload |-> nextVal],
                    !.isExpanded = FALSE,
                    !.swapTimer = StartTimer(SWAP_COLLAPSE_MS)]
     ELSE [c EXCEPT !.lastRefreshKey = refreshKeyVal,
                    !.swapTimer = NoTimer,
                    !.pendingView = NoPending,
                    !.view = nextVal,
                    !.applied = refreshKeyVal]

\* the sources of the auto expand/collapse watcher
AutoSources(c) ==
  <<c.props.autoCollapseDelayMs, c.props.autoExpandDelayMs, hasDesc(c),
    allowExpand(c), c.props.exiting, c.applied>>

\* mutant: the watcher does not look at exiting and allowExpand
AutopilotUnguarded(c) ==
  LET cleared == [c EXCEPT !.autoExpandTimer = NoTimer,
                           !.autoCollapseTimer = NoTimer]
      expandDelay == IF c.props.autoExpandDelayMs \in {NULL, UNDEFINED}
                     THEN 0 ELSE c.props.autoExpandDelayMs
      collapseDelay == IF c.props.autoCollapseDelayMs \in {NULL, UNDEFINED}
                       THEN 0 ELSE c.props.autoCollapseDelayMs
  IN IF ~hasDesc(c) THEN cleared
     ELSE IF /\ c.props.autoExpandDelayMs \in {NULL, UNDEFINED}
             /\ c.props.autoCollapseDelayMs \in {NULL, UNDEFINED}
     THEN cleared
     ELSE [cleared EXCEPT
             !.isExpanded = IF expandDelay > 0 THEN @ ELSE TRUE,
             !.autoExpandTimer =
                IF expandDelay > 0 THEN StartTimer(expandDelay) ELSE NoTimer,
             !.autoCollapseTimer =
                IF collapseDelay > 0 THEN StartTimer(collapseDelay)
                ELSE NoTimer]

\* the callback of the auto expand/collapse watcher
Autopilot(c) ==
  LET cleared == [c EXCEPT !.autoExpandTimer = NoTimer,
                           !.autoCollapseTimer = NoTimer]
      expandDelay == IF c.props.autoExpandDelayMs \in {NULL, UNDEFINED}
                     THEN 0 ELSE c.props.autoExpandDelayMs
      collapseDelay == IF c.props.autoCollapseDelayMs \in {NULL, UNDEFINED}
                       THEN 0 ELSE c.props.autoCollapseDelayMs
  IN IF ~hasDesc(c) THEN cleared
     ELSE IF c.props.exiting \/ ~allowExpand(c)
     THEN [cleared EXCEPT !.isExpanded = FALSE]
     ELSE IF /\ c.props.autoExpandDelayMs \in {NULL, UNDEFINED}
             /\ c.props.autoCollapseDelayMs \in {NULL, UNDEFINED}
     THEN cleared
     ELSE [cleared EXCEPT
             !.isExpanded = IF expandDelay > 0 THEN @ ELSE TRUE,
             !.autoExpandTimer =
                IF expandDelay > 0 THEN StartTimer(expandDelay) ELSE NoTimer,
             !.autoCollapseTimer =
                IF collapseDelay > 0 THEN StartTimer(collapseDelay)
                ELSE NoTimer]

\* el.style.transform: "", or translateY(y px)
NoTransform == [set |-> FALSE, y |-> 0]

Abs(x) == IF x < 0 THEN -x ELSE x

Min(x, y) == IF x < y THEN x ELSE y

\* handlePointerDown at clientY y, on the action button or not; the Toaster
\* always passes onDismiss
handlePointerDown(c, y, onButton) ==
  IF c.props.exiting THEN c
  ELSE IF onButton THEN c
  ELSE [c EXCEPT !.pointerStartY = y]

\* onMove: pointermove at clientY y
onMove(c, y) ==
  IF c.pointerStartY = NULL THEN c
  ELSE LET dy == y - c.pointerStartY
           sign == IF dy > 0 THEN 1 ELSE -1
           clamped == Min(Abs(dy), SWIPE_MAX) * sign
       IN [c EXCEPT !.transform = [set |-> TRUE, y |-> clamped]]

\* mutant: a release at the threshold dismisses
onUpDismissAt(c, y) ==
  c.pointerStartY # NULL /\ Abs(y - c.pointerStartY) >= SWIPE_DISMISS

\* onUp: whether pointerup at clientY y calls props.onDismiss
onUpDismiss(c, y) ==
  c.pointerStartY # NULL /\ Abs(y - c.pointerStartY) > SWIPE_DISMISS

\* onUp: what pointerup at clientY y leaves of the drag
onUp(c, y) ==
  IF c.pointerStartY = NULL THEN c
  ELSE [c EXCEPT !.pointerStartY = NULL, !.transform = NoTransform]

\* the pre-flush queue: the refresh watcher, then the auto expand/collapse
\* watcher if one of its sources has changed
Flush(c) ==
  LET c1 == Refresh(c)
  IN IF AutoSources(c1) = c1.autoSeen THEN c1
     ELSE [Autopilot(c1) EXCEPT !.autoSeen = AutoSources(c1)]

\* setup(): the state a card is created with; the auto expand/collapse watcher
\* is immediate
CardSetup(props) ==
  LET c == [props |-> props, view |-> NextView(props),
            applied |-> props.refreshKey, isExpanded |-> FALSE,
            lastRefreshKey |-> props.refreshKey, pendingView |-> NoPending,
            swapTimer |-> NoTimer, autoExpandTimer |-> NoTimer,
            autoCollapseTimer |-> NoTimer, autoSeen |-> << >>,
            pointerStartY |-> NULL, transform |-> NoTransform,
            clientY |-> NULL]
  IN [Autopilot(c) EXCEPT !.autoSeen = AutoSources(c)]

\* the parent renders the card with new props
CardRender(c, props) == Flush([c EXCEPT !.props = props])

\* handleEnter, after props.onMouseEnter
handleEnter(c) ==
  IF hasDesc(c) THEN [c EXCEPT !.isExpanded = TRUE] ELSE c

\* handleLeave, after props.onMouseLeave
handleLeave(c) == [c EXCEPT !.isExpanded = FALSE]

\* handleTransitionEnd for a transition of propertyName
handleTransitionEnd(c, propertyName) ==
  IF propertyName # "height" /\ propertyName # "transform" THEN c
  ELSE IF open(c) THEN c
  ELSE IF ~c.pendingView.set THEN c
  ELSE [c EXCEPT !.swapTimer = NoTimer,
                 !.view = c.pendingView.payload,
                 !.applied = c.pendingView.key,
                 !.pendingView = NoPending]

\* mutant: the fallback timer gives the pending view up
swapTimerFiredDrop(c) ==
  [c EXCEPT !.swapTimer = NoTimer, !.pendingView = NoPending]

\* the callback of swapTimer
swapTimerFired(c) ==
  IF ~c.pendingView.set THEN [c EXCEPT !.swapTimer = NoTimer]
  ELSE [c EXCEPT !.swapTimer = NoTimer,
                 !.view = c.pendingView.payload,
                 !.applied = c.pendingView.key,
                 !.pendingView = NoPending]

\* the callback of autoExpandTimer
autoExpandTimerFired(c) ==
  [c EXCEPT !.autoExpandTimer = NoTimer, !.isExpanded = TRUE]

\* the callback of autoCollapseTimer
autoCollapseTimerFired(c) ==
  [c EXCEPT !.autoCollapseTimer = NoTimer, !.isExpanded = FALSE]

CardTimers(c) == {c.swapTimer, c.autoExpandTimer, c.autoCollapseTimer}

CardAdvance(c) ==
  [c EXCEPT !.swapTimer = TimerAdvance(@),
            !.autoExpandTimer = TimerAdvance(@),
            !.autoCollapseTimer = TimerAdvance(@)]

NoCards == [id \in {} |-> 0]

\* the template of the Vue Toaster: one card per toast of its list, keyed by
\* the toast's id; a card that stays is rendered with its new props
RenderCards(cs, st) ==
  IF st.phase # "mounted" THEN NoCards
  ELSE [id \in Ids(st.toasts) |->
          LET props == PropsOf(ItemOf(st.toasts, id), VueCanExpand(st, id))
          IN IF id \in DOMAIN cs THEN CardRender(cs[id], props)
             ELSE CardSetup(props)]

(* ------------------------------- Init ---------------------------------- *)

Init ==
  /\ storeToasts = << >>
  /\ idCounter = 0
  /\ promises = {}
  /\ listeners = {}
  /\ adapter = [a \in Adapters |-> Setup(a)]
  /\ pointer = UNDEFINED
  /\ cards = NoCards

(* --------------------------- store operations -------------------------- *)

\* the element under the pointer disappears with its toast, and no
\* mouseleave is delivered for it
PointerAfter(p, items) == IF p \in Ids(items) THEN p ELSE UNDEFINED

\* emit(): every listener is called with the new list; the adapter's reaction
\* to it is part of the step
Deliver(ad, next) ==
  [a \in Adapters |->
     IF a \in listeners THEN Listener(a, ad[a], next) ELSE ad[a]]

\* the store's list becomes next; cs are the cards as the calling handler
\* leaves them
UpdateWith(ad, cs, next) ==
  /\ storeToasts' = next
  /\ adapter' = Deliver(ad, next)
  /\ pointer' = IF Mounted = {} THEN pointer ELSE PointerAfter(pointer, next)
  /\ cards' = RenderCards(cs, adapter'["vue"])

Update(ad, next) == UpdateWith(ad, cards, next)

Show(o) ==
  /\ idCounter < MaxToasts
  /\ idCounter' = idCounter + 1
  /\ Update(adapter, show(storeToasts, idCounter + 1, o))
  /\ UNCHANGED <<promises, listeners>>

\* promise(): the loading toast is shown and the operation is pending
Promise(o) ==
  /\ idCounter < MaxToasts
  /\ idCounter' = idCounter + 1
  /\ promises' = promises \cup {idCounter + 1}
  /\ Update(adapter, show(storeToasts, idCounter + 1, o))
  /\ UNCHANGED listeners

\* the operation settles: the content is replaced in place, unless the toast
\* has been dismissed or is gone
Settle(id, o) ==
  /\ id \in promises
  /\ promises' = promises \ {id}
  /\ LET next == replaceToast(storeToasts, id, o)
     IN IF next # storeToasts
        THEN Update(adapter, next)
        ELSE UNCHANGED <<storeToasts, adapter, pointer, cards>>
  /\ UNCHANGED <<idCounter, listeners>>

\* dismiss(id) with any id, also from a toast's onDismiss (swipe)
Dismiss(id) ==
  /\ Update(adapter, dismissToast(storeToasts, id))
  /\ UNCHANGED <<idCounter, promises, listeners>>

DismissAll ==
  /\ \E id \in Ids(storeToasts) : Live(storeToasts, id)
  /\ Update(adapter, dismissAll(storeToasts))
  /\ UNCHANGED <<idCounter, promises, listeners>>

Clear ==
  /\ storeToasts # << >>
  /\ Update(adapter, << >>)
  /\ UNCHANGED <<idCounter, promises, listeners>>

\* the exit transition of a dismissed toast has completed
Remove(id) ==
  /\ id \in Ids(storeToasts)
  /\ ItemOf(storeToasts, id).exiting
  /\ Update(adapter, removeToast(storeToasts, id))
  /\ UNCHANGED <<idCounter, promises, listeners>>

(* --------------------------- adapter actions --------------------------- *)

\* the card of toast id, if it is rendered, runs handler
OnCard(cs, id, handler(_)) ==
  [i \in DOMAIN cs |-> IF i = id THEN handler(cs[i]) ELSE cs[i]]


\* the Toasters of S are mounted on the current list
Mount(S) ==
  /\ \A a \in Adapters : adapter[a].phase = "setup"
  /\ listeners' = listeners \cup S
  /\ adapter' = [a \in Adapters |->
                   IF a \in S THEN OnMounted(a, adapter[a], storeToasts)
                   ELSE adapter[a]]
  /\ cards' = RenderCards(cards, adapter'["vue"])
  /\ UNCHANGED <<storeToasts, idCounter, promises, pointer>>

Unmount ==
  /\ Mounted # {}
  /\ listeners' = listeners \ Mounted
  /\ adapter' = [a \in Adapters |->
                   IF a \in Mounted THEN OnUnmounted(a, adapter[a])
                   ELSE adapter[a]]
  /\ pointer' = UNDEFINED
  /\ cards' = RenderCards(cards, adapter'["vue"])
  /\ UNCHANGED <<storeToasts, idCounter, promises>>

\* mouseenter on the rendered toast toastId
Enter(toastId) ==
  /\ Mounted # {}
  /\ pointer = UNDEFINED
  /\ \A a \in Mounted : toastId \in Ids(adapter[a].toasts)
  /\ pointer' = toastId
  /\ adapter' = [a \in Adapters |->
                   IF a \in Mounted THEN OnEnter(a, adapter[a], toastId)
                   ELSE adapter[a]]
  /\ cards' = RenderCards(OnCard(cards, toastId, handleEnter),
                          adapter'["vue"])
  /\ UNCHANGED <<storeToasts, idCounter, promises, listeners>>

\* mouseleave on the toast under the pointer
Leave ==
  /\ Mounted # {}
  /\ pointer # UNDEFINED
  /\ pointer' = UNDEFINED
  /\ adapter' = [a \in Adapters |->
                   IF a \in Mounted THEN OnLeave(a, adapter[a])
                   ELSE adapter[a]]
  /\ cards' = RenderCards(OnCard(cards, pointer, handleLeave),
                          adapter'["vue"])
  /\ UNCHANGED <<storeToasts, idCounter, promises, listeners>>

(* ------------------------------- timers -------------------------------- *)

AllDue == UNION { Due(adapter[a].timers) : a \in Adapters }

CardDue == \E id \in DOMAIN cards : \E t \in CardTimers(cards[id]) : TimerDue(t)

CardPending == \E id \in DOMAIN cards : \E t \in CardTimers(cards[id]) : t.on

\* mutant: the callback takes the toast out of the list
timerCallbackRemove(items, key) == removeToast(items, key[1])

\* () => dismissToast(item.id)
timerCallback(items, key) == dismissToast(items, key[1])

\* the callback of the auto-dismiss timers set for key
Fire(key) ==
  /\ key \in AllDue
  /\ LET ad == [a \in Adapters |->
                  [adapter[a] EXCEPT !.timers = Fired(@, key)]]
         next == timerCallback(storeToasts, key)
     IN IF next # storeToasts
        THEN Update(ad, next)
        ELSE adapter' = ad /\ UNCHANGED <<storeToasts, pointer, cards>>
  /\ UNCHANGED <<idCounter, promises, listeners>>

\* Quantum milliseconds pass; a timer that is due fires before more time passes
Tick ==
  /\ AllDue = {}
  /\ ~CardDue
  /\ CardPending \/ \E a \in Adapters : Pending(adapter[a].timers) # {}
  /\ adapter' = [a \in Adapters |->
                   [adapter[a] EXCEPT !.timers = Advance(@)]]
  /\ cards' = [id \in DOMAIN cards |-> CardAdvance(cards[id])]
  /\ UNCHANGED <<storeToasts, idCounter, promises, listeners, pointer>>

(* ----------------------------- card events ---------------------------- *)

\* the card of toast id runs handler, and then its watchers
CardStep(id, handler(_)) ==
  /\ cards' = [cards EXCEPT ![id] = Flush(handler(@))]
  /\ UNCHANGED <<storeToasts, idCounter, promises, listeners, adapter, pointer>>

\* transitionend of propertyName reaches the card's button
TransitionEnd(id, propertyName) ==
  CardStep(id, LAMBDA c : handleTransitionEnd(c, propertyName))

SwapTimerFire(id) ==
  /\ TimerDue(cards[id].swapTimer)
  /\ CardStep(id, swapTimerFired)

AutoExpandFire(id) ==
  /\ TimerDue(cards[id].autoExpandTimer)
  /\ CardStep(id, autoExpandTimerFired)

AutoCollapseFire(id) ==
  /\ TimerDue(cards[id].autoCollapseTimer)
  /\ CardStep(id, autoCollapseTimerFired)

CardNext ==
  \/ \E id \in DOMAIN cards, n \in TransitionProperties : TransitionEnd(id, n)
  \/ \E id \in DOMAIN cards : SwapTimerFire(id)
  \/ \E id \in DOMAIN cards : AutoExpandFire(id)
  \/ \E id \in DOMAIN cards : AutoCollapseFire(id)

(* ------------------------------- swipe --------------------------------- *)

\* pointerdown on the card of toast id; one pointer: no other drag is going on
PointerDown(id, y, onButton) ==
  /\ \A i \in DOMAIN cards : cards[i].pointerStartY = NULL
  /\ cards' = [cards EXCEPT
                 ![id] = [handlePointerDown(@, y, onButton) EXCEPT
                            !.clientY = y]]
  /\ UNCHANGED <<storeToasts, idCounter, promises, listeners, adapter, pointer>>

PointerMove(id, y) ==
  /\ cards' = [cards EXCEPT ![id] = [onMove(@, y) EXCEPT !.clientY = y]]
  /\ UNCHANGED <<storeToasts, idCounter, promises, listeners, adapter, pointer>>

\* pointerup on the card of toast id; props.onDismiss is the Toaster's
\* dismiss handler, () => dismissToast(toastId)
PointerUp(id, y) ==
  LET cs == [cards EXCEPT ![id] = [onUp(@, y) EXCEPT !.clientY = y]]
  IN /\ IF onUpDismiss(cards[id], y)
        THEN UpdateWith(adapter, cs, dismissToast(storeToasts, id))
        ELSE cards' = cs /\ UNCHANGED <<storeToasts, adapter, pointer>>
     /\ UNCHANGED <<idCounter, promises, listeners>>

\* the Vue Toaster, its cards and a pointer that presses, drags and releases;
\* toasts are dismissed by swipe only
NextSwipe ==
  \/ \E o \in SwipeOptions : Show(o)
  \/ \E id \in 1..MaxToasts : Remove(id)
  \/ Mount({"vue"})
  \/ \E id \in DOMAIN cards, y \in PointerYs, b \in BOOLEAN :
       PointerDown(id, y, b)
  \/ \E id \in DOMAIN cards, y \in PointerYs : PointerMove(id, y)
  \/ \E id \in DOMAIN cards, y \in PointerYs : PointerUp(id, y)

SpecSwipe == Init /\ [][NextSwipe]_vars

(* ----------------------- a card on its own ----------------------------- *)

\* the parent renders the card with props
SetProps(id, props) ==
  /\ props # cards[id].props
  /\ cards' = [cards EXCEPT ![id] = CardRender(@, props)]
  /\ UNCHANGED <<storeToasts, idCounter, promises, listeners, adapter, pointer>>

\* the toast's content is replaced: new fields, next refreshKey
PropsUpdate(id, o) ==
  /\ ~cards[id].props.exiting
  /\ cards[id].props.refreshKey < MaxRefreshKey
  /\ SetProps(id, [cards[id].props EXCEPT
                     !.refreshKey = @ + 1,
                     !.state = o.state, !.title = o.title,
                     !.description = o.description, !.button = o.button,
                     !.autoExpandDelayMs = o.autoExpandDelayMs,
                     !.autoCollapseDelayMs = o.autoCollapseDelayMs])

PropsCanExpand(id, b) == SetProps(id, [cards[id].props EXCEPT !.canExpand = b])

PropsExiting(id) == SetProps(id, [cards[id].props EXCEPT !.exiting = TRUE])

\* mouseenter on the card; props.onMouseEnter is the parent's business
PointerEnter(id) ==
  /\ pointer = UNDEFINED
  /\ pointer' = id
  /\ cards' = [cards EXCEPT ![id] = Flush(handleEnter(@))]
  /\ UNCHANGED <<storeToasts, idCounter, promises, listeners, adapter>>

PointerLeave(id) ==
  /\ pointer = id
  /\ pointer' = UNDEFINED
  /\ cards' = [cards EXCEPT ![id] = Flush(handleLeave(@))]
  /\ UNCHANGED <<storeToasts, idCounter, promises, listeners, adapter>>

InitCard ==
  /\ storeToasts = << >>
  /\ idCounter = 0
  /\ promises = {}
  /\ listeners = {}
  /\ adapter = [a \in Adapters |-> Setup(a)]
  /\ pointer = UNDEFINED
  /\ \E o \in CardOptions, b \in BOOLEAN :
        cards = [id \in {1} |-> CardSetup(PropsOf(buildSileoItem(1, o), b))]

NextCard ==
  \/ \E id \in DOMAIN cards, o \in CardOptions : PropsUpdate(id, o)
  \/ \E id \in DOMAIN cards, b \in BOOLEAN : PropsCanExpand(id, b)
  \/ \E id \in DOMAIN cards : PropsExiting(id)
  \/ \E id \in DOMAIN cards : PointerEnter(id)
  \/ \E id \in DOMAIN cards : PointerLeave(id)
  \/ CardNext
  \/ Tick

\* one card, rendered by a parent that may pass it any props
SpecCard == InitCard /\ [][NextCard]_vars

(* --------------------- a card's mount and unmount ---------------------- *)

HEIGHT == 40

\* HEIGHT * MIN_EXPAND_RATIO, the ratio being 2.25
minExpanded == (HEIGHT * 9) \div 4

PILL_PADDING == 10

HEADER_EXIT_MS == 150

\* the toasts the mounted card is rendered for
TeardownOptions ==
  { o \in CardOptions : /\ o.state = "info"
                        /\ o.autoExpandDelayMs # UNDEFINED
                        /\ o.autoCollapseDelayMs # UNDEFINED }

\* headerKey: `${view.state}-${view.title}`
headerKey(c) == <<c.view.state, c.view.title>>

\* el.scrollWidth of the header's inner element and el.scrollHeight of the
\* content element: the sizes follow the content that is displayed
scrollWidth(c) == IF c.view.title = "a" THEN 1 ELSE 2

scrollHeight(c) == IF c.view.title = "a" THEN 30 ELSE 80

\* a header layer: { key, view }, or null
NoLayer == [set |-> FALSE, key |-> << >>, view |-> NoView]

Layer(key, view) == [set |-> TRUE, key |-> key, view |-> view]

\* the refs and locals of setup() that serve measurement, the header layer
\* and the component's life cycle; a requested animation frame is TRUE, a
\* connected observer is TRUE
MeasureSetup(c) ==
  [ready |-> FALSE, readyRaf |-> FALSE,
   pillRo |-> FALSE, pillRaf |-> FALSE, pillWidth |-> 0,
   contentRo |-> FALSE, contentRaf |-> FALSE, contentHeight |-> 0,
   headerLayer |-> [current |-> Layer(headerKey(c), c.view), prev |-> NoLayer],
   headerExitTimer |-> NoTimer, frozenExpanded |-> minExpanded,
   isUnmounted |-> FALSE]

Max(x, y) == IF x > y THEN x ELSE y

rawExpanded(c) ==
  IF ~hasDesc(c) THEN minExpanded
  ELSE Max(minExpanded, HEIGHT + c.contentHeight)

\* mutant: the expanded height follows the measurement, open or not
expandedUnfrozen(c) == rawExpanded(c)

\* the value of expanded
expanded(c) == IF open(c) THEN rawExpanded(c) ELSE c.frozenExpanded

\* the render evaluates expanded, which records the height of an open card
\* in frozenExpanded
RenderExpanded(c) ==
  IF open(c) THEN [c EXCEPT !.frozenExpanded = rawExpanded(c)] ELSE c

\* measurePillWidth; the template refs of an unmounted component are null;
\* headerPadding is taken as 0
measurePillWidth(c) ==
  IF c.isUnmounted THEN c
  ELSE LET w == scrollWidth(c) + PILL_PADDING
       IN IF w > PILL_PADDING THEN [c EXCEPT !.pillWidth = w] ELSE c

setupPillObserver(c) ==
  LET c1 == IF c.pillRo THEN [c EXCEPT !.pillRaf = FALSE, !.pillRo = FALSE]
            ELSE c
  IN IF c1.isUnmounted THEN c1
     ELSE [measurePillWidth(c1) EXCEPT !.pillRo = TRUE]

\* measureContentHeight; the content element is rendered when hasDesc
measureContentHeight(c) ==
  IF c.isUnmounted \/ ~hasDesc(c) THEN c
  ELSE [c EXCEPT !.contentHeight = scrollHeight(c)]

setupContentObserver(c) ==
  LET c1 == IF c.contentRo
            THEN [c EXCEPT !.contentRaf = FALSE, !.contentRo = FALSE]
            ELSE c
  IN IF ~hasDesc(c1) THEN [c1 EXCEPT !.contentHeight = 0]
     ELSE IF c1.isUnmounted THEN c1
     ELSE [measureContentHeight(c1) EXCEPT !.contentRo = TRUE]

\* mutant: a header-exit timer that is pending is left to run
HeaderSyncKeepTimer(c0, c1) ==
  LET state == c1.headerLayer
      newKey == headerKey(c1)
  IN IF headerKey(c1) = headerKey(c0) /\ c1.view = c0.view THEN c1
     ELSE IF state.current.key = newKey
     THEN [c1 EXCEPT !.headerLayer.current = Layer(newKey, c1.view)]
     ELSE [c1 EXCEPT !.headerLayer = [prev |-> state.current,
                                      current |-> Layer(newKey, c1.view)],
                     !.headerExitTimer =
                        IF @.on THEN @ ELSE StartTimer(HEADER_EXIT_MS)]

\* mutant: every change of the view moves the current layer to prev
HeaderSyncAlways(c0, c1) ==
  LET state == c1.headerLayer
      newKey == headerKey(c1)
  IN IF headerKey(c1) = headerKey(c0) /\ c1.view = c0.view THEN c1
     ELSE [c1 EXCEPT !.headerLayer = [prev |-> state.current,
                                      current |-> Layer(newKey, c1.view)],
                     !.headerExitTimer = StartTimer(HEADER_EXIT_MS)]

\* the watchers of the header layer, run when headerKey or view has changed:
\* the same key replaces the current layer's view; a new key moves the
\* current layer to prev, and a new prev (re)starts headerExitTimer
HeaderSync(c0, c1) ==
  LET state == c1.headerLayer
      newKey == headerKey(c1)
  IN IF headerKey(c1) = headerKey(c0) /\ c1.view = c0.view THEN c1
     ELSE IF state.current.key = newKey
     THEN [c1 EXCEPT !.headerLayer.current = Layer(newKey, c1.view)]
     ELSE [c1 EXCEPT !.headerLayer = [prev |-> state.current,
                                      current |-> Layer(newKey, c1.view)],
                     !.headerExitTimer = StartTimer(HEADER_EXIT_MS)]

\* the watchers that follow a change from c0 to c1: the header layer, then
\* (post flush, next tick) the observers of a new header key or a new hasDesc
PostFlush(c0, c1) ==
  LET h == HeaderSync(c0, c1)
      p == IF headerKey(c1) # headerKey(c0) THEN setupPillObserver(h) ELSE h
  IN IF hasDesc(c1) # hasDesc(c0) THEN setupContentObserver(p) ELSE p

\* the callback of headerExitTimer
headerExitTimerFired(c) ==
  [c EXCEPT !.headerExitTimer = NoTimer, !.headerLayer.prev = NoLayer]

\* onMounted: the animation frame that sets ready, then the observers
onMounted(c) ==
  setupContentObserver(setupPillObserver([c EXCEPT !.readyRaf = TRUE]))

\* onUnmounted
onUnmounted(c) ==
  LET c1 == IF c.pillRo THEN [c EXCEPT !.pillRaf = FALSE, !.pillRo = FALSE]
            ELSE c
      c2 == IF c1.contentRo
            THEN [c1 EXCEPT !.contentRaf = FALSE, !.contentRo = FALSE]
            ELSE c1
  IN [c2 EXCEPT !.headerExitTimer = NoTimer, !.autoExpandTimer = NoTimer,
                !.autoCollapseTimer = NoTimer, !.swapTimer = NoTimer]

\* the card of toast id runs handler, then its watchers, and is rendered; the
\* watchers of an unmounted component are stopped and it is not rendered
TeardownStep(id, handler(_)) ==
  /\ cards' = [cards EXCEPT
                 ![id] = IF @.isUnmounted THEN handler(@)
                         ELSE RenderExpanded(PostFlush(@, Flush(handler(@))))]
  /\ UNCHANGED <<storeToasts, idCounter, promises, listeners, adapter, pointer>>

\* the parent renders the mounted card with new content
TeardownRender(id, o) ==
  /\ ~cards[id].isUnmounted
  /\ cards[id].props.refreshKey < MaxRefreshKey
  /\ TeardownStep(id, LAMBDA c :
       [c EXCEPT !.props = [@ EXCEPT
                   !.refreshKey = @ + 1,
                   !.state = o.state, !.title = o.title,
                   !.description = o.description, !.button = o.button,
                   !.autoExpandDelayMs = o.autoExpandDelayMs,
                   !.autoCollapseDelayMs = o.autoCollapseDelayMs]])

\* transitionend reaches the button of a mounted card
TeardownTransitionEnd(id, propertyName) ==
  /\ ~cards[id].isUnmounted
  /\ TeardownStep(id, LAMBDA c : handleTransitionEnd(c, propertyName))

\* a pending timer fires when it is due, whatever has become of the component
TeardownSwapTimerFire(id) ==
  /\ TimerDue(cards[id].swapTimer)
  /\ TeardownStep(id, swapTimerFired)

TeardownAutoExpandFire(id) ==
  /\ TimerDue(cards[id].autoExpandTimer)
  /\ TeardownStep(id, autoExpandTimerFired)

TeardownAutoCollapseFire(id) ==
  /\ TimerDue(cards[id].autoCollapseTimer)
  /\ TeardownStep(id, autoCollapseTimerFired)

HeaderExitFire(id) ==
  /\ TimerDue(cards[id].headerExitTimer)
  /\ TeardownStep(id, headerExitTimerFired)

\* the callback of the pill's ResizeObserver: the element may change size at
\* any moment
PillResized(id) ==
  /\ cards[id].pillRo
  /\ TeardownStep(id, LAMBDA c : [c EXCEPT !.pillRaf = TRUE])

\* the animation frame requested by the pill's observer
PillFrame(id) ==
  /\ cards[id].pillRaf
  /\ TeardownStep(id, LAMBDA c : [measurePillWidth(c) EXCEPT !.pillRaf = FALSE])

ContentResized(id) ==
  /\ cards[id].contentRo
  /\ TeardownStep(id, LAMBDA c : [c EXCEPT !.contentRaf = TRUE])

ContentFrame(id) ==
  /\ cards[id].contentRaf
  /\ TeardownStep(id, LAMBDA c :
       [measureContentHeight(c) EXCEPT !.contentRaf = FALSE])

\* the animation frame requested in onMounted: ready.value = true
ReadyFrame(id) ==
  /\ cards[id].readyRaf
  /\ TeardownStep(id, LAMBDA c : [c EXCEPT !.ready = TRUE, !.readyRaf = FALSE])

\* the parent removes the card: onUnmounted runs, the component's watchers
\* stop and its template refs become null
CardUnmount(id) ==
  /\ ~cards[id].isUnmounted
  /\ cards' = [cards EXCEPT ![id] = [onUnmounted(@) EXCEPT !.isUnmounted = TRUE]]
  /\ UNCHANGED <<storeToasts, idCounter, promises, listeners, adapter, pointer>>

\* Quantum milliseconds pass for the card's four timers; a timer that is due
\* fires before more time passes
TeardownTick ==
  /\ \A id \in DOMAIN cards :
       \A t \in CardTimers(cards[id]) \cup {cards[id].headerExitTimer} :
         ~TimerDue(t)
  /\ \E id \in DOMAIN cards :
       \E t \in CardTimers(cards[id]) \cup {cards[id].headerExitTimer} : t.on
  /\ cards' = [id \in DOMAIN cards |->
                 [CardAdvance(cards[id]) EXCEPT
                    !.headerExitTimer = TimerAdvance(@)]]
  /\ UNCHANGED <<storeToasts, idCounter, promises, listeners, adapter, pointer>>

\* the card is created and mounted
InitTeardown ==
  /\ storeToasts = << >>
  /\ idCounter = 0
  /\ promises = {}
  /\ listeners = {}
  /\ adapter = [a \in Adapters |-> Setup(a)]
  /\ pointer = UNDEFINED
  /\ \E o \in TeardownOptions, b \in BOOLEAN :
        cards = [id \in {1} |->
                   LET c == CardSetup(PropsOf(buildSileoItem(1, o), b))
                   IN RenderExpanded(onMounted(c @@ MeasureSetup(c)))]

NextTeardown ==
  \/ \E id \in DOMAIN cards, o \in TeardownOptions : TeardownRender(id, o)
  \/ \E id \in DOMAIN cards, n \in TransitionProperties :
       TeardownTransitionEnd(id, n)
  \/ \E id \in DOMAIN cards : TeardownSwapTimerFire(id)
  \/ \E id \in DOMAIN cards : TeardownAutoExpandFire(id)
  \/ \E id \in DOMAIN cards : TeardownAutoCollapseFire(id)
  \/ \E id \in DOMAIN cards : HeaderExitFire(id)
  \/ \E id \in DOMAIN cards : PillResized(id)
  \/ \E id \in DOMAIN cards : PillFrame(id)
  \/ \E id \in DOMAIN cards : ContentResized(id)
  \/ \E id \in DOMAIN cards : ContentFrame(id)
  \/ \E id \in DOMAIN cards : ReadyFrame(id)
  \/ \E id \in DOMAIN cards : CardUnmount(id)
  \/ TeardownTick

\* one card from its mount to its unmount, and what is left of it afterwards
SpecTeardown == InitTeardown /\ [][NextTeardown]_vars

(* ------------------------- position stacks ----------------------------- *)

MaxGroup == 3

SILEO_POSITIONS ==
  <<"top-left", "top-center", "top-right",
    "bottom-left", "bottom-center", "bottom-right">>

Positions == { SILEO_POSITIONS[i] : i \in 1..Len(SILEO_POSITIONS) }

\* position: undefined
NoPosition == "undefined"

\* a toast with options.position: one of the six positions, or none
PositionedItem(id, o, position) ==
  [position |-> position] @@ buildSileoItem(id, o)

\* t.position ?? position
ResolvedPosition(t, position) ==
  IF t.position = NoPosition THEN position ELSE t.position

NoStacks == [pos \in {} |-> << >>]

\* a loop in which a toast replaces the stack of its position
RECURSIVE byPositionLast(_, _, _)
byPositionLast(map, toasts, position) ==
  IF toasts = << >> THEN map
  ELSE LET t == Head(toasts)
           pos == ResolvedPosition(t, position)
       IN byPositionLast((pos :> <<t>>) @@ map, Tail(toasts), position)

\* the loop of byPosition over the toasts that are left, map being filled
RECURSIVE byPositionLoop(_, _, _)
byPositionLoop(map, toasts, position) ==
  IF toasts = << >> THEN map
  ELSE LET t == Head(toasts)
           pos == ResolvedPosition(t, position)
       IN byPositionLoop(IF pos \in DOMAIN map
                         THEN [map EXCEPT ![pos] = Append(@, t)]
                         ELSE (pos :> <<t>>) @@ map,
                         Tail(toasts), position)

\* mutant: map[pos] = [t] for every toast
byPositionReplace(toasts, position) ==
  byPositionLast(NoStacks, toasts, position)

byPosition(toasts, position) == byPositionLoop(NoStacks, toasts, position)

\* the viewports of the render: one section per position, in the order of
\* SILEO_POSITIONS, for the positions that have toasts
Viewports(toasts, position) ==
  LET map == byPosition(toasts, position)
      shown == SelectSeq(SILEO_POSITIONS,
                         LAMBDA pos : pos \in DOMAIN map /\ Len(map[pos]) > 0)
  IN [i \in 1..Len(shown) |-> [position |-> shown[i], items |-> map[shown[i]]]]

\* a Toaster with its position prop, the list it mirrors and what it renders
GroupToaster(position, toasts) ==
  [position |-> position, toasts |-> toasts,
   viewports |-> Viewports(toasts, position)]

\* the store notifies both Toasters of next, and each renders
GroupUpdate(next) ==
  /\ storeToasts' = next
  /\ adapter' = [a \in Adapters |-> GroupToaster(adapter[a].position, next)]

GroupShow(o, position) ==
  /\ idCounter < MaxGroup
  /\ idCounter' = idCounter + 1
  /\ GroupUpdate(Append(storeToasts, PositionedItem(idCounter + 1, o, position)))
  /\ UNCHANGED <<promises, listeners, pointer, cards>>

GroupRemove(id) ==
  /\ id \in Ids(storeToasts)
  /\ GroupUpdate(removeToast(storeToasts, id))
  /\ UNCHANGED <<idCounter, promises, listeners, pointer, cards>>

InitGroup ==
  /\ storeToasts = << >>
  /\ idCounter = 0
  /\ promises = {}
  /\ listeners = Adapters
  /\ pointer = UNDEFINED
  /\ cards = NoCards
  /\ \E p \in Positions :
        adapter = [a \in Adapters |-> GroupToaster(p, << >>)]

NextGroup ==
  \/ \E o \in SwipeOptions, p \in Positions \cup {NoPosition} : GroupShow(o, p)
  \/ \E id \in 1..MaxGroup : GroupRemove(id)

\* the Toasters of both frameworks rendering the store's list in stacks
SpecGroup == InitGroup /\ [][NextGroup]_vars

(* ---------------------------- specification ---------------------------- *)

StoreNext ==
  \/ \E o \in ShowOptions : Show(o)
  \/ \E o \in LoadingOptions : Promise(o)
  \/ \E id \in 1..MaxToasts, o \in SettleOptions : Settle(id, o)
  \/ \E id \in 1..MaxToasts : Dismiss(id)
  \/ DismissAll
  \/ Clear
  \/ \E id \in 1..MaxToasts : Remove(id)

\* the React and the Vue Toaster side by side on one store, driven by the same
\* events
Next ==
  \/ StoreNext
  \/ Mount(Adapters)
  \/ Unmount
  \/ \E id \in 1..MaxToasts : Enter(id)
  \/ Leave
  \/ \E key \in AllDue : Fire(key)
  \/ Tick

Spec == Init /\ [][Next]_vars

(* ------------------- the Vue Toaster with its cards -------------------- *)

\* the Vue Toaster and the cards it renders; no toast has a duration, so that
\* toasts leave by dismiss only; content is updated by promise settlement, which
\* finds the card loading and not open, so that no swap is ever pending
NextStack ==
  \/ \E o \in StackOptions : Show(o)
  \/ \E o \in StackLoadingOptions : Promise(o)
  \/ \E id \in 1..MaxToasts, o \in StackOptions : Settle(id, o)
  \/ \E id \in 1..MaxToasts : Dismiss(id)
  \/ DismissAll
  \/ Clear
  \/ \E id \in 1..MaxToasts : Remove(id)
  \/ Mount({"vue"})
  \/ Unmount
  \/ \E id \in 1..MaxToasts : Enter(id)
  \/ Leave
  \/ \E id \in DOMAIN cards : AutoExpandFire(id)
  \/ \E id \in DOMAIN cards : AutoCollapseFire(id)
  \/ Tick

SpecStack == Init /\ [][NextStack]_vars

(* ------------------------------- claims -------------------------------- *)

Items(st) == { st.toasts[i] : i \in 1..Len(st.toasts) }

Keys(items) == { <<items[i].id, items[i].instanceId>> : i \in 1..Len(items) }

\* a toast with a finite positive duration
Timed(item) == item.duration # NULL /\ item.duration > 0

\* the timer of adapter state st for item is new and runs for item's duration
FreshTimer(st, item) ==
  /\ timeoutKey(item) \in DOMAIN st.timers
  /\ st.timers[timeoutKey(item)].delay = item.duration
  /\ st.timers[timeoutKey(item)].elapsed = 0
  /\ ~st.timers[timeoutKey(item)].fired

\* C1: in a mounted adapter that is not hovered, every non-exiting toast with a
\* finite positive duration d has a timer that runs for d; the timer of such a
\* toast fires (and marks the toast exiting) once d ms have elapsed since it was
\* set, not earlier, and not later than the first clock step at which d is
\* reached.
C1_AutoDismissAtDuration ==
  \A a \in Mounted : \A item \in Items(adapter[a]) :
    LET st == adapter[a]
        key == timeoutKey(item)
    IN Timed(item) =>
         /\ (~st.isHovering /\ ~item.exiting) => key \in DOMAIN st.timers
         /\ key \in DOMAIN st.timers =>
              /\ st.timers[key].id = item.id
              /\ st.timers[key].delay = item.duration
              /\ st.timers[key].elapsed < item.duration + Quantum
              /\ st.timers[key].fired =>
                   /\ st.timers[key].elapsed >= item.duration
                   /\ item.exiting
              /\ ~item.exiting => ~st.timers[key].fired

\* a timer has run for the full duration of its toast and dismissed it
C1_Witness ==
  \E a \in Mounted : \E item \in Items(adapter[a]) :
    /\ Timed(item)
    /\ item.exiting
    /\ ~adapter[a].isHovering
    /\ timeoutKey(item) \in DOMAIN adapter[a].timers
    /\ adapter[a].timers[timeoutKey(item)].fired
    /\ adapter[a].timers[timeoutKey(item)].elapsed >= item.duration

\* C2: no adapter holds an auto-dismiss timer for a toast whose duration is
\* null, so no timer ever requests the dismissal of such a toast.
C2_NullDurationNeverDismissed ==
  \A a \in Mounted : \A item \in Items(adapter[a]) :
    item.duration = NULL =>
      ~(/\ timeoutKey(item) \in DOMAIN adapter[a].timers
        /\ adapter[a].timers[timeoutKey(item)].fired)

\* a timer of DEFAULT_DURATION has dismissed a toast whose duration is null
C2_Witness ==
  \E a \in Mounted : \E item \in Items(adapter[a]) :
    /\ item.duration = NULL
    /\ item.exiting
    /\ timeoutKey(item) \in DOMAIN adapter[a].timers
    /\ adapter[a].timers[timeoutKey(item)].fired

\* a mouse-leave step: the pointer leaves a toast that is still rendered
LeaveStep ==
  /\ pointer # UNDEFINED
  /\ pointer' = UNDEFINED
  /\ storeToasts' = storeToasts
  /\ Mounted' = Mounted

\* C3: while the pointer is over a toast of an adapter, the adapter's timer map
\* is empty (nothing pending, nothing scheduled for toasts that arrive, nothing
\* to fire); the mouse-leave gives every non-exiting toast with a finite
\* positive duration a new timer with nothing elapsed and its full duration.
C3_HoverSuspends ==
  /\ [](\A a \in Mounted :
          pointer # UNDEFINED =>
            adapter[a].isHovering /\ DOMAIN adapter[a].timers = {})
  /\ [][LeaveStep =>
          \A a \in Mounted : \A item \in Items(adapter'[a]) :
            (Timed(item) /\ ~item.exiting) => FreshTimer(adapter'[a], item)]_vars

\* the pointer is over a toast while a toast that would otherwise be timed is
\* in the list
C3_Witness ==
  \E a \in Mounted : \E item \in Items(adapter[a]) :
    /\ pointer # UNDEFINED
    /\ pointer # item.id
    /\ Timed(item)
    /\ ~item.exiting
    /\ DOMAIN adapter[a].timers = {}

\* C4: every timer of a mounted adapter is keyed by the (id, instanceId) of a
\* toast of its list; a toast that appears with a new key (shown, or replaced
\* in place) while the adapter is not hovered, with a finite positive duration,
\* has a new timer of that full duration.
C4_TimersFollowIdentity ==
  /\ [](\A a \in Mounted :
          DOMAIN adapter[a].timers \subseteq Keys(adapter[a].toasts))
  /\ [][\A a \in Mounted \cap Mounted' : \A item \in Items(adapter'[a]) :
          (/\ timeoutKey(item) \notin Keys(adapter[a].toasts)
           /\ Timed(item)
           /\ ~adapter'[a].isHovering)
          => FreshTimer(adapter'[a], item)]_vars

\* a replaced toast carries the timer of its new instance
C4_Witness ==
  \E a \in Mounted : \E item \in Items(adapter[a]) :
    /\ item.instanceId = 2
    /\ Timed(item)
    /\ timeoutKey(item) \in DOMAIN adapter[a].timers
    /\ adapter[a].timers[timeoutKey(item)].elapsed > 0
    /\ <<item.id, 1>> \notin DOMAIN adapter[a].timers

\* C5: an unmounted adapter is not among the store's listeners, its timer map
\* is empty, and nothing changes its state any more, whatever the store does.
C5_Teardown ==
  /\ [](\A a \in Adapters :
          adapter[a].phase = "unmounted" =>
            a \notin listeners /\ DOMAIN adapter[a].timers = {})
  /\ [][\A a \in Adapters :
          adapter[a].phase = "unmounted" => adapter'[a] = adapter[a]]_vars

\* the store has moved on after the unmount of an adapter that had toasts
C5_Witness ==
  \E a \in Adapters :
    /\ adapter[a].phase = "unmounted"
    /\ adapter[a].toasts # << >>
    /\ adapter[a].toasts # storeToasts
    /\ \E i \in 1..Len(storeToasts) :
         ~storeToasts[i].exiting /\ storeToasts[i].duration # 0

\* C6: at most one of the toasts rendered by the Toaster is open.
C6_SingleExpanded ==
  Cardinality({ id \in DOMAIN cards : open(cards[id]) }) <= 1

\* a toast is open next to another rendered toast that has content to expand,
\* is not loading and is not exiting
C6_Witness ==
  \E id, other \in DOMAIN cards :
    /\ id # other
    /\ open(cards[id])
    /\ hasDesc(cards[other])
    /\ ~isLoading(cards[other])
    /\ ~cards[other].props.exiting
    /\ cards[other].props.autoExpandDelayMs = 0

\* the refreshKey of the rendered toast id changes in the step
KeyChanged(id) ==
  /\ id \in DOMAIN cards'
  /\ cards'[id].props.refreshKey # cards[id].props.refreshKey

\* C7: when the refreshKey of a toast changes while its card is open, the view
\* stays as it was, the new content is held back as the pending view, the
\* refresh watcher sets the card to collapse (and the card is collapsed after
\* the update unless the same update makes the auto expand/collapse watcher
\* decide again), and the fallback timer of 200 ms is running; when it changes
\* while the card is not open, the view is the new content at once and nothing
\* is pending.  In every other step the view changes only to the pending
\* content, and only by a height or transform transitionend that finds the
\* card not open or by the fallback timer 200 ms after the change.
C7_SwapProtocol ==
  /\ [](\A id \in DOMAIN cards :
          cards[id].pendingView.set =>
            /\ cards[id].swapTimer.on
            /\ cards[id].swapTimer.delay = SWAP_COLLAPSE_MS
            /\ cards[id].pendingView.key = cards[id].props.refreshKey)
  /\ [][\A id \in DOMAIN cards :
          /\ KeyChanged(id) /\ open(cards[id]) =>
               LET c1 == Refresh([cards[id] EXCEPT !.props = cards'[id].props])
               IN /\ cards'[id].view = cards[id].view
                  /\ cards'[id].pendingView.set
                  /\ cards'[id].pendingView.payload = NextView(cards'[id].props)
                  /\ cards'[id].swapTimer = StartTimer(SWAP_COLLAPSE_MS)
                  /\ ~c1.isExpanded
                  /\ AutoSources(c1) = cards[id].autoSeen =>
                       ~cards'[id].isExpanded
          /\ KeyChanged(id) /\ ~open(cards[id]) =>
               /\ cards'[id].view = NextView(cards'[id].props)
               /\ ~cards'[id].pendingView.set
          /\ (/\ id \in DOMAIN cards'
              /\ ~KeyChanged(id)
              /\ cards'[id].view # cards[id].view) =>
               /\ cards[id].pendingView.set
               /\ cards'[id].view = cards[id].pendingView.payload
               /\ ~cards'[id].pendingView.set
               /\ \/ /\ ~open(cards[id])
                     /\ \E n \in {"height", "transform"} :
                          cards'[id] =
                            Flush(handleTransitionEnd(cards[id], n))
                  \/ /\ TimerDue(cards[id].swapTimer)
                     /\ cards'[id] = Flush(swapTimerFired(cards[id]))]_vars

\* the refreshKey of an open card has changed: the card is collapsed and still
\* shows the old content, the new content is pending
C7_Witness ==
  \E id \in DOMAIN cards :
    /\ cards[id].pendingView.set
    /\ cards[id].pendingView.payload # cards[id].view
    /\ cards[id].pendingView.payload = NextView(cards[id].props)
    /\ ~cards[id].isExpanded
    /\ cards[id].applied # cards[id].props.refreshKey

\* the id of the last non-exiting toast of items
LastLive(items) ==
  LET S == { i \in 1..Len(items) : ~items[i].exiting }
  IN IF S = {} THEN UNDEFINED
     ELSE items[CHOOSE i \in S : \A j \in S : j <= i].id

\* C8: when the pointer is over no toast and the last hover ended with its
\* mouse-leave, the active id of a mounted adapter is the id of the last
\* non-exiting toast of its list (undefined when there is none), and when there
\* is one, it is the only toast with canExpand.
C8_DefaultActive ==
  \A a \in Mounted :
    (pointer = UNDEFINED /\ ~adapter[a].isHovering) =>
      /\ adapter[a].activeId = LastLive(adapter[a].toasts)
      /\ LastLive(adapter[a].toasts) # UNDEFINED =>
           \A id \in Ids(adapter[a].toasts) :
             CanExpand(a, adapter[a], id) <=> id = LastLive(adapter[a].toasts)

\* the last toast of the list is exiting and an earlier one is the active one
C8_Witness ==
  \E a \in Mounted :
    /\ pointer = UNDEFINED
    /\ ~adapter[a].isHovering
    /\ Len(adapter[a].toasts) = 2
    /\ adapter[a].toasts[2].exiting
    /\ adapter[a].activeId = adapter[a].toasts[1].id

\* C9: while the pointer is over a toast, that toast is the active one.
C9_ActiveWhileHovered ==
  \A a \in Mounted : pointer # UNDEFINED => adapter[a].activeId = pointer

\* a hover during which the hovered toast stays active
C9_Witness ==
  \E a \in Mounted :
    /\ pointer # UNDEFINED
    /\ adapter[a].activeId = pointer
    /\ LastLive(adapter[a].toasts) # pointer

\* C11: a dismiss of a toast that is already exiting leaves the list as it is
\* (a second dismiss after a first one changes nothing), a notification with
\* the unchanged list changes no adapter and no card, and the callback of an
\* auto-dismiss timer that fires for a toast that is no longer live changes
\* neither the list nor what the adapters and the cards hold of it.
C11_DismissIdempotent ==
  /\ [](/\ \A id \in 1..MaxToasts :
             LET once == dismissToast(storeToasts, id)
             IN /\ dismissToast(once, id) = once
                /\ ~Live(storeToasts, id) => once = storeToasts
         /\ Deliver(adapter, storeToasts) = adapter
         /\ RenderCards(cards, adapter["vue"]) = cards)
  /\ [][\A key \in AllDue :
          (~Live(storeToasts, key[1]) /\ Fire(key)) =>
            /\ UNCHANGED <<storeToasts, pointer, cards>>
            /\ \A a \in Adapters :
                 adapter'[a] = [adapter[a] EXCEPT !.timers = Fired(@, key)]]_vars

\* the auto-dismiss timer of a toast is due after the toast was dismissed
C11_Witness ==
  \E a \in Mounted : \E key \in Due(adapter[a].timers) :
    /\ key[1] \in Ids(storeToasts)
    /\ ItemOf(storeToasts, key[1]).exiting

\* C12: a dismiss of an id that is not in the list leaves the list as it is,
\* content and order, whatever the list.
C12_DismissUnknown ==
  \A id \in 1..(MaxToasts + 1) :
    id \notin Ids(storeToasts) => dismissToast(storeToasts, id) = storeToasts

\* a list of live toasts, one id handed out earlier is gone and one id has
\* never been handed out
C12_Witness ==
  /\ \E i \in 1..Len(storeToasts) : ~storeToasts[i].exiting
  /\ \E id \in 1..idCounter : id \notin Ids(storeToasts)

\* C10: the ids of the list are pairwise distinct and in the order in which
\* they were handed out; a show hands out an id never used before, appends the
\* new toast at the end and leaves the toasts before it as they were.
C10_ShowAppends ==
  /\ [](\A i, j \in 1..Len(storeToasts) :
          /\ i < j => storeToasts[i].id < storeToasts[j].id
          /\ storeToasts[i].id <= idCounter)
  /\ [][idCounter' # idCounter =>
          /\ idCounter' > idCounter
          /\ Len(storeToasts') = Len(storeToasts) + 1
          /\ SubSeq(storeToasts', 1, Len(storeToasts)) = storeToasts
          /\ storeToasts'[Len(storeToasts')].id = idCounter']_vars

\* a second toast has been shown behind an earlier one
C10_Witness ==
  /\ Len(storeToasts) = 2
  /\ storeToasts[1].id = 1
  /\ storeToasts[2].id = 2
  /\ storeToasts[1].exiting

\* the promise of toast id settles in the step
Settled(id) == id \in promises /\ id \notin promises'

\* C13: a toast that is exiting stays as it is until it leaves the list, an id
\* that has left the list does not come back, and the settlement of a promise
\* whose toast is not live any more leaves the list as it is: a loading toast
\* dismissed before its promise settles is never live with the success or
\* error content.
C13_NoResurrection ==
  [][/\ \A id \in Ids(storeToasts) :
          ItemOf(storeToasts, id).exiting =>
            \/ id \notin Ids(storeToasts')
            \/ ItemOf(storeToasts', id) = ItemOf(storeToasts, id)
     /\ \A id \in 1..idCounter :
          id \notin Ids(storeToasts) => id \notin Ids(storeToasts')
     /\ \A id \in 1..MaxToasts :
          (Settled(id) /\ ~Live(storeToasts, id)) =>
            storeToasts' = storeToasts]_vars

\* the promise of a toast has settled after the toast was dismissed: the toast
\* is still in the list, exiting, with its loading content
C13_Witness ==
  \E i \in 1..Len(storeToasts) :
    /\ storeToasts[i].id \notin promises
    /\ storeToasts[i].exiting
    /\ storeToasts[i].state = "loading"
    /\ storeToasts[i].instanceId = 1

\* C14: dismiss() marks every toast of the list exiting and takes none out:
\* the list keeps its length and order and every other field, and every
\* subscribed adapter holds that list after the one step; an exiting toast
\* leaves the list only by its own removal, or when the list is cleared.
C14_DismissAllMarks ==
  /\ [](LET d == dismissAll(storeToasts)
        IN /\ Len(d) = Len(storeToasts)
           /\ \A i \in 1..Len(d) :
                d[i] = [storeToasts[i] EXCEPT !.exiting = TRUE])
  /\ [][DismissAll =>
          /\ storeToasts' = dismissAll(storeToasts)
          /\ \A a \in listeners : adapter'[a].toasts = storeToasts']_vars
  /\ [][\A id \in Ids(storeToasts) :
          (ItemOf(storeToasts, id).exiting /\ id \notin Ids(storeToasts')) =>
            \/ storeToasts' = removeToast(storeToasts, id)
            \/ storeToasts' = << >>]_vars

\* one of two dismissed toasts has completed its exit, the other is still in
\* the list, exiting
C14_Witness ==
  /\ idCounter >= 2
  /\ Len(storeToasts) = 1
  /\ storeToasts[1].exiting
  /\ storeToasts[1].id = 1
  /\ \A a \in Mounted : adapter[a].toasts = storeToasts

\* C15: when the promise of a live toast settles, the list keeps its length
\* and every other toast, and holds at the toast's position a live toast with
\* the same id, another instanceId and the success or error content; the
\* instanceId of a toast changes in no other step.
C15_SettleInPlace ==
  [][/\ \A i \in 1..Len(storeToasts) :
          (Settled(storeToasts[i].id) /\ ~storeToasts[i].exiting) =>
            /\ Len(storeToasts') = Len(storeToasts)
            /\ \A j \in 1..Len(storeToasts) :
                 j # i => storeToasts'[j] = storeToasts[j]
            /\ storeToasts'[i].instanceId # storeToasts[i].instanceId
            /\ \E o \in SettleOptions :
                 storeToasts'[i] =
                   [buildSileoItem(storeToasts[i].id, o) EXCEPT
                      !.instanceId = storeToasts'[i].instanceId]
            /\ storeToasts'[i].state \in {"success", "error"}
     /\ \A id \in Ids(storeToasts) \cap Ids(storeToasts') :
          ItemOf(storeToasts', id).instanceId # ItemOf(storeToasts, id).instanceId
            => Settled(id) /\ Live(storeToasts, id)]_vars

\* a settled toast in front of a toast shown after it
C15_Witness ==
  /\ Len(storeToasts) = 2
  /\ storeToasts[1].instanceId = 2
  /\ storeToasts[1].state = "success"
  /\ ~storeToasts[1].exiting
  /\ storeToasts[1].id < storeToasts[2].id

\* a drag is going on on the card of toast id
Dragging(id) == id \in DOMAIN cards /\ cards[id].pointerStartY # NULL

\* C16: a drag starts only on a toast that is not exiting, outside its action
\* button.  When the pointer is released on a dragged toast, at clientY, the
\* Toaster's dismiss is called for that toast if |clientY - pointerStartY| is
\* more than 30 (the toast is exiting afterwards), and the list is left as it
\* is if it is 30 or less; in both cases pointerStartY is null and the
\* transform is cleared afterwards.  Nothing else ends a drag.
C16_SwipeThreshold ==
  /\ [][\A id \in DOMAIN cards' :
          (~Dragging(id) /\ cards'[id].pointerStartY # NULL) =>
            /\ id \in DOMAIN cards
            /\ ~cards[id].props.exiting
            /\ cards' = [cards EXCEPT
                           ![id] = [handlePointerDown(@, cards'[id].clientY,
                                                       FALSE)
                                      EXCEPT !.clientY = cards'[id].clientY]]
     ]_vars
  /\ [][\A id \in DOMAIN cards :
          (Dragging(id) /\ id \in DOMAIN cards'
             /\ cards'[id].pointerStartY = NULL) =>
            LET dy == cards'[id].clientY - cards[id].pointerStartY
            IN /\ ~cards'[id].transform.set
               /\ Abs(dy) > 30 =>
                    /\ storeToasts' = dismissToast(storeToasts, id)
                    /\ ItemOf(storeToasts', id).exiting
               /\ Abs(dy) <= 30 => storeToasts' = storeToasts
     ]_vars

\* a toast has been swiped away (it is exiting, its drag is reset) next to a
\* live toast on which the pointer has been released without a dismissal
C16_Witness ==
  \E id, other \in DOMAIN cards :
    /\ cards[id].props.exiting
    /\ cards[id].pointerStartY = NULL
    /\ ~cards[id].transform.set
    /\ cards[id].clientY # NULL
    /\ other # id
    /\ Live(storeToasts, other)
    /\ cards[other].pointerStartY = NULL
    /\ cards[other].clientY # NULL
    /\ ~cards[other].transform.set

\* the toast of card c may be expanded by autopilot
Eligible(c) ==
  /\ c.props.canExpand
  /\ c.view.description \/ c.view.button
  /\ c.view.state # "loading"
  /\ ~c.props.exiting

\* C17: a card that is expanded by a step that is not a mouse-enter (the auto
\* expand/collapse watcher or the expand timer) is permitted to expand, shows
\* a description or a button, is not loading and is not exiting; and an
\* autopilot timer is pending only for such a card: when one of the conditions
\* stops holding, both timers are off after the same step.
C17_AutopilotGuard ==
  /\ [](\A id \in DOMAIN cards :
          (cards[id].autoExpandTimer.on \/ cards[id].autoCollapseTimer.on)
            => Eligible(cards[id]))
  /\ [][\A id \in DOMAIN cards \cap DOMAIN cards' :
          (~cards[id].isExpanded /\ cards'[id].isExpanded /\ pointer' = pointer)
            => Eligible(cards'[id])]_vars

\* the expand timer has expanded a card that nobody hovers
C17_Witness ==
  \E id \in DOMAIN cards :
    /\ cards[id].isExpanded
    /\ pointer = UNDEFINED
    /\ cards[id].props.autoExpandDelayMs > 0
    /\ cards[id].autoCollapseTimer.on
    /\ cards[id].autoCollapseTimer.elapsed >= cards[id].props.autoExpandDelayMs

\* C18: the expand timer runs for the expand delay e; the collapse timer of an
\* expanded card that nobody hovers is due only when e + c ms have passed
\* since autopilot started, that is c ms after the expansion, and the
\* expansion has happened by then.
C18_AutopilotOrdering ==
  \A id \in DOMAIN cards :
    LET c == cards[id]
        e == IF c.props.autoExpandDelayMs \in {NULL, UNDEFINED}
             THEN 0 ELSE c.props.autoExpandDelayMs
    IN /\ c.autoExpandTimer.on => c.autoExpandTimer.delay = e
       /\ (TimerDue(c.autoCollapseTimer) /\ c.isExpanded
             /\ pointer = UNDEFINED) =>
            /\ ~c.autoExpandTimer.on
            /\ c.autoCollapseTimer.elapsed >= e + c.props.autoCollapseDelayMs

\* the collapse timer of a card that autopilot expanded after e > 0 ms is due
\* c ms after autopilot started
C18_Witness ==
  \E id \in DOMAIN cards :
    /\ cards[id].props.autoExpandDelayMs > 0
    /\ cards[id].isExpanded
    /\ pointer = UNDEFINED
    /\ Eligible(cards[id])
    /\ TimerDue(cards[id].autoCollapseTimer)
    /\ cards[id].autoCollapseTimer.elapsed
         < cards[id].props.autoExpandDelayMs
           + cards[id].props.autoCollapseDelayMs

\* C19: a card that is open stays expanded while the pointer stays over it and
\* its props and its view stay as they are, whatever timer fires; and the
\* mouse-leave collapses it.
C19_HoverPrecedence ==
  [][\A id \in DOMAIN cards \cap DOMAIN cards' :
       /\ (/\ pointer = id /\ pointer' = id
           /\ open(cards[id])
           /\ cards'[id].props = cards[id].props
           /\ cards'[id].view = cards[id].view) => cards'[id].isExpanded
       /\ (pointer = id /\ pointer' = UNDEFINED) => ~cards'[id].isExpanded
    ]_vars

\* the collapse timer is due on an open card under the pointer
C19_Witness ==
  \E id \in DOMAIN cards :
    /\ pointer = id
    /\ open(cards[id])
    /\ Eligible(cards[id])
    /\ TimerDue(cards[id].autoCollapseTimer)

\* the callbacks an instance can still receive: pending timers, connected
\* observers, requested animation frames
Outstanding(c) ==
  \/ c.headerExitTimer.on \/ c.autoExpandTimer.on \/ c.autoCollapseTimer.on
  \/ c.swapTimer.on
  \/ c.pillRo \/ c.contentRo
  \/ c.pillRaf \/ c.contentRaf \/ c.readyRaf

\* C20: once a card is unmounted none of its callbacks is outstanding (timers,
\* observers and every requested animation frame, the one of onMounted
\* included, are cancelled at unmount), and no state of the unmounted instance
\* changes any more
C20_Teardown ==
  /\ [](\A id \in DOMAIN cards :
          cards[id].isUnmounted => ~Outstanding(cards[id]))
  /\ [][\A id \in DOMAIN cards :
          cards[id].isUnmounted => cards'[id] = cards[id]]_vars

\* a card unmounted before its first animation frame: the callback that sets
\* ready is still requested
C20_Witness ==
  \E id \in DOMAIN cards :
    /\ cards[id].isUnmounted
    /\ cards[id].readyRaf
    /\ ~cards[id].ready

\* the cards that are mounted before and after a step
Staying == { id \in DOMAIN cards \cap DOMAIN cards' :
               ~cards[id].isUnmounted /\ ~cards'[id].isUnmounted }

\* C21: when the displayed (state, title) pair changes, the layer that was
\* current becomes the one prev layer and a window of HEADER_EXIT_MS starts
\* (again, if one was running); prev is kept while the window runs, is
\* discarded only when the window is over, and time does not pass beyond the
\* window with prev still kept
C21_HeaderWindow ==
  /\ [](\A id \in DOMAIN cards :
          LET c == cards[id]
          IN ~c.isUnmounted =>
               /\ c.headerLayer.prev.set <=> c.headerExitTimer.on
               /\ c.headerExitTimer.on =>
                    c.headerExitTimer.delay = HEADER_EXIT_MS)
  /\ [][\A id \in Staying :
          LET c == cards[id]
              d == cards'[id]
          IN /\ headerKey(d) # headerKey(c) =>
                  /\ d.headerLayer.prev = c.headerLayer.current
                  /\ d.headerLayer.current.key = headerKey(d)
                  /\ d.headerExitTimer = StartTimer(HEADER_EXIT_MS)
             /\ (headerKey(d) = headerKey(c) /\ c.headerLayer.prev.set) =>
                  /\ ~TimerDue(c.headerExitTimer) =>
                       d.headerLayer.prev = c.headerLayer.prev
                  /\ ~d.headerLayer.prev.set => TimerDue(c.headerExitTimer)
                  /\ (TimerDue(c.headerExitTimer) /\ d.headerLayer.prev.set) =>
                       d.headerExitTimer = c.headerExitTimer]_vars

\* a second header change has replaced prev, and its window is running
C21_Witness ==
  \E id \in DOMAIN cards :
    LET c == cards[id]
    IN /\ ~c.isUnmounted
       /\ c.applied = c.props.refreshKey
       /\ c.props.refreshKey > 2
       /\ c.headerLayer.prev.set
       /\ c.headerLayer.prev.view.title # c.props.title
       /\ c.headerExitTimer.elapsed > 0
       /\ ~TimerDue(c.headerExitTimer)

\* C29: the prev header layer is absent or has another key than the current
\* layer, and the current layer's key is the key of the displayed view
C29_HeaderLayersDistinct ==
  \A id \in DOMAIN cards :
    LET c == cards[id]
    IN /\ c.headerLayer.prev.set =>
            c.headerLayer.prev.key # c.headerLayer.current.key
       /\ c.headerLayer.current.key = headerKey(c)

\* the current layer has taken a new view under its key while prev is kept
C29_Witness ==
  \E id \in DOMAIN cards :
    LET c == cards[id]
    IN /\ ~c.isUnmounted
       /\ c.headerLayer.prev.set
       /\ c.headerLayer.current.view = c.view
       /\ c.headerLayer.current.view.description
            # c.headerLayer.prev.view.description
       /\ c.props.refreshKey = 3

\* the toasts of a list that resolve to position pos, in the list's order
StackOf(toasts, position, pos) ==
  SelectSeq(toasts, LAMBDA t : ResolvedPosition(t, position) = pos)

\* C22: the rendered stacks are a partition of the list: every toast is in
\* exactly one stack, the one of its resolved position; a stack holds its
\* toasts in store order; no stack is empty and no position has two stacks
C22_GroupingPartition ==
  \A a \in Adapters :
    LET st == adapter[a]
        vs == st.viewports
        Places(t) == { <<v, j>> \in (1..Len(vs)) \X (1..MaxGroup + 1) :
                         j <= Len(vs[v].items) /\ vs[v].items[j] = t }
    IN /\ \A i \in 1..Len(st.toasts) :
            /\ Cardinality(Places(st.toasts[i])) = 1
            /\ \A pl \in Places(st.toasts[i]) :
                 vs[pl[1]].position
                   = ResolvedPosition(st.toasts[i], st.position)
       /\ \A v \in 1..Len(vs) :
            /\ vs[v].position \in Positions
            /\ vs[v].items # << >>
            /\ vs[v].items = StackOf(st.toasts, st.position, vs[v].position)
            /\ \A w \in 1..Len(vs) : vs[w].position = vs[v].position => w = v

\* three toasts in two stacks: two of them share the default position, one
\* by its own position and one for want of a position
C22_Witness ==
  \E a \in Adapters :
    LET st == adapter[a]
    IN /\ Len(st.toasts) = 3
       /\ Len(st.viewports) = 2
       /\ \E v \in 1..2 :
            /\ st.viewports[v].position = st.position
            /\ Len(st.viewports[v].items) = 2
            /\ st.viewports[v].items[1].position = NoPosition
            /\ st.viewports[v].items[2].position = st.position

\* C23: whenever the displayed view of a card is replaced by other content (at
\* once, by transitionend or by the fallback timer), the card is not open at
\* that moment
C23_NoSwapUnderOpen ==
  [][\A id \in DOMAIN cards \cap DOMAIN cards' :
       (/\ cards[id].props.refreshKey # UNDEFINED
        /\ cards'[id].view # cards[id].view) => ~open(cards[id])]_vars

\* a card that was opened again while its new content is held back and the
\* fallback timer is about to fire
C23_Witness ==
  \E id \in DOMAIN cards :
    /\ open(cards[id])
    /\ cards[id].pendingView.set
    /\ cards[id].pendingView.payload # cards[id].view
    /\ TimerDue(cards[id].swapTimer)

\* C24: a card is open only if the view it displays has a description or a
\* button and is not in the loading state
C24_NeverOpenWithoutContent ==
  \A id \in DOMAIN cards :
    open(cards[id]) =>
      /\ cards[id].view.description \/ cards[id].view.button
      /\ cards[id].view.state # "loading"

\* a hovered loading card with a description: the hover has set isExpanded,
\* and the card is not open
C24_Witness ==
  \E id \in DOMAIN cards :
    /\ pointer = id
    /\ cards[id].isExpanded
    /\ cards[id].view.state = "loading"
    /\ cards[id].view.description
    /\ ~open(cards[id])

\* C25: the expanded height of an open card is max(90, 40 + contentHeight);
\* a card that is not open after a step has the expanded height it had before
\* the step, whatever was measured; a card that starts not open has 90
C25_ExpandedFreeze ==
  /\ \A id \in DOMAIN cards :
       ~open(cards[id]) => expanded(cards[id]) = 90
  /\ [](\A id \in DOMAIN cards :
          (~cards[id].isUnmounted /\ open(cards[id])) =>
            /\ expanded(cards[id])
                 = IF 40 + cards[id].contentHeight > 90
                   THEN 40 + cards[id].contentHeight ELSE 90
            /\ cards[id].frozenExpanded = expanded(cards[id]))
  /\ [][\A id \in Staying :
          ~open(cards'[id]) => expanded(cards'[id]) = expanded(cards[id])]_vars

\* a card that is not open and keeps the height of its last opening (120),
\* while the content measured since then would give another height (90)
C25_Witness ==
  \E id \in DOMAIN cards :
    /\ ~cards[id].isUnmounted
    /\ ~open(cards[id])
    /\ hasDesc(cards[id])
    /\ cards[id].contentHeight = 30
    /\ expanded(cards[id]) = 120

\* C26: whenever no swap timer is pending, the displayed view is the content
\* that came with the latest refreshKey, applied is that refreshKey and no
\* view is pending
C26_SwapConvergence ==
  \A id \in DOMAIN cards :
    ~cards[id].swapTimer.on =>
      /\ cards[id].view = NextView(cards[id].props)
      /\ cards[id].applied = cards[id].props.refreshKey
      /\ ~cards[id].pendingView.set

\* an open card after two replacements of its content, no swap timer pending
C26_Witness ==
  \E id \in DOMAIN cards :
    /\ cards[id].props.refreshKey > 2
    /\ ~cards[id].swapTimer.on
    /\ open(cards[id])
    /\ cards[id].applied = cards[id].props.refreshKey

\* C27: while the pointer is over no toast, every toast of a mounted Toaster
\* that is not exiting and has a finite positive duration has its dismissal
\* timer pending (and so has its dismissal requested when the time is up),
\* also after the toast under the pointer was removed during a hover
C27_NeverBlocked ==
  \A a \in Mounted :
    pointer = UNDEFINED =>
      \A item \in Items(adapter[a]) :
        (~item.exiting /\ Timed(item)) =>
          timeoutKey(item) \in Pending(adapter[a].timers)

\* the hovered toast is gone and another toast with a duration is left
C27_Witness ==
  \E a \in Mounted :
    /\ pointer = UNDEFINED
    /\ adapter[a].isHovering
    /\ \E item \in Items(adapter[a]) : ~item.exiting /\ Timed(item)

\* C28: a mounted Toaster holds at most one pending timer per toast id, and it
\* is the timer of the toast's current instanceId; a timer that is set in a
\* step is set for a toast that is not exiting
C28_OneTimerPerToast ==
  /\ [](\A a \in Mounted :
          LET st == adapter[a]
          IN /\ \A k1, k2 \in Pending(st.timers) : k1[1] = k2[1] => k1 = k2
             /\ Pending(st.timers) \subseteq Keys(st.toasts))
  /\ [][\A a \in Mounted :
          a \in Mounted' =>
            \A k \in Pending(adapter'[a].timers) :
              (k \notin DOMAIN adapter[a].timers
                 \/ adapter'[a].timers[k].elapsed < adapter[a].timers[k].elapsed)
                => \E item \in Items(adapter'[a]) :
                     timeoutKey(item) = k /\ ~item.exiting]_vars

\* the timer of the second instance of a toast is pending; the one of its
\* first instance is gone
C28_Witness ==
  \E a \in Mounted :
    \E item \in Items(adapter[a]) :
      /\ item.instanceId > 1
      /\ timeoutKey(item) \in Pending(adapter[a].timers)
      /\ <<item.id, 1>> \notin DOMAIN adapter[a].timers

\* C30: a React Toaster and a Vue Toaster that were mounted together on the
\* same list and receive the same notifications and events have, after every
\* step, the same hover flag, the same pending timer keys and the same active
\* id, and the same timers due, that is the same dismissal requests to issue;
\* after their unmount they agree as well
C30_AdaptersEquivalent ==
  LET v == adapter["vue"]
      r == adapter["react"]
  IN (v.phase = r.phase /\ v.phase # "setup") =>
       /\ v.isHovering = r.isHovering
       /\ Pending(v.timers) = Pending(r.timers)
       /\ v.activeId = r.activeId
       /\ Due(v.timers) = Due(r.timers)
       /\ \A k \in Pending(v.timers) : v.timers[k].id = r.timers[k].id

\* both Toasters are hovered on a toast that is not the latest one, and both
\* have made it the active toast
C30_Witness ==
  /\ \A a \in Adapters :
       /\ adapter[a].phase = "mounted"
       /\ adapter[a].isHovering
       /\ adapter[a].activeId = pointer
       /\ adapter[a].activeId # adapter[a].latestId
  /\ pointer # UNDEFINED
  /\ pointer # 1

====
